---- MODULE Spec2Model ----
\* Party-Playlister backend (dual-mode server, src/unnamed/part_000 lines 1-359):
\* OAuth token lifecycle, handshake and the request handlers built on them.
\*
\* JavaScript runs one handler continuation at a time; a handler gives up
\* control only at an `await fetch(...)`.  Every action below is one such
\* continuation: from the arrival of a request (or of an upstream response)
\* up to the next upstream call or to the response.
\*
\* express-session hands every request its own copy of the stored session
\* (req.session) and writes it back when the response ends if it was
\* modified, or at once on an explicit session.save().
EXTENDS Integers, Sequences, FiniteSets, TLC

VARIABLES
    serviceRefreshToken, \* SERVICE_REFRESH_TOKEN, fixed at start-up
    store,               \* the session store's record for the browser's session
    now,                 \* Date.now(), in milliseconds
    req,                 \* the requests in flight, one record per slot
    usedCodes,           \* authorization codes the upstream has redeemed
    handshake            \* where the session's OAuth handshake stands

vars == <<serviceRefreshToken, store, now, req, usedCodes, handshake>>

-----------------------------------------------------------------------------
\* Bounds of the model

MaxTicks == 2            \* number of clock steps

-----------------------------------------------------------------------------
\* Values

UNDEF == "<undefined>"   \* JavaScript undefined / null (an absent field)
NOTIME == -1             \* an absent expiresAt

MsPerSec == 1000         \* data.expires_in * 1000

Reqs == {"r1", "r2"}                 \* request slots
Serial == {"r1"}                     \* the slot used when requests come one at a time
AccessTokens == {"u1", "u2"}         \* user access tokens the upstream issues
DemoTokens == {"d1"}                 \* access tokens issued for the service account
RefreshTokens == {"rt1"}             \* user refresh tokens the upstream issues
ExpiresIn == {1, 2}                  \* expires_in of a token response, seconds
Codes == {"c1", "c2"}                \* authorization codes
States == {"", "s1", "s2"}           \* Math.random().toString(36).substring(7)
Outcomes == {"ok", "fail", "error"}  \* 2xx / non-2xx / transport error
ErrorDescriptions == {UNDEF, "invalid_grant"}  \* data.error_description

\* JavaScript truthiness of a string-or-undefined value
Truthy(x) == x # UNDEF /\ x # ""

\* JavaScript truthiness of a number-or-undefined value
TruthyNum(n) == n # NOTIME /\ n # 0

\* `x || null` on a query parameter
OrNull(x) == IF Truthy(x) THEN x ELSE UNDEF

-----------------------------------------------------------------------------
\* Session

EmptySess == [accessToken |-> UNDEF, refreshToken |-> UNDEF,
              expiresAt |-> NOTIME, state |-> UNDEF]

\* the body of the last token response: nothing yet, or not a success
NoData == [access_token |-> UNDEF, expires_in |-> 0]

\* A request in its initial position
IdleReq == [pc |-> "idle", kind |-> "none", sess |-> EmptySess, orig |-> EmptySess,
            in |-> [q |-> UNDEF], token |-> UNDEF, mode |-> UNDEF,
            calls |-> <<>>, answers |-> <<>>, data |-> NoData, resp |-> [status |-> 0],
            i |-> 0, allTracks |-> <<>>, selectedUris |-> <<>>, sentUris |-> <<>>,
            bearers |-> <<>>, playlistName |-> UNDEF]

\* express-session: the request gets a copy of the stored session
NewReq(kind, in) == [IdleReq EXCEPT !.kind = kind, !.sess = store, !.orig = store, !.in = in]

\* express-session's end-of-response hook: save the session if it was modified
EndHook(rec, st) == IF rec.sess # rec.orig THEN rec.sess ELSE st

\* res.status(s).json(body) / res.send: the handler's one response
Respond(rec, status, body) ==
    [rec EXCEPT !.pc = "done", !.resp = [status |-> status] @@ body]

\* an upstream call is issued and the handler awaits its response
\* (bearers: the token of its Authorization: Bearer header, if the handler
\* holds one)
Fetch(rec, call, pc) ==
    [rec EXCEPT !.pc = pc, !.calls = Append(@, call), !.bearers = Append(@, rec.token)]

\* the awaited upstream call answered with outcome o
Answered(rec, o) == [rec EXCEPT !.answers = Append(@, o)]

\* req.session.save(): the session is written to the store at once
SessionSave(rec) == [rec EXCEPT !.orig = rec.sess]

\* the state after one continuation of request r; st is the store as that
\* continuation's own save() or destroy() calls left it
Commit(r, rec, st) ==
    /\ req' = [req EXCEPT ![r] = rec]
    /\ store' = IF rec.pc = "done" THEN EndHook(rec, st) ELSE st

Free(r) == req[r].pc \in {"idle", "done"}

-----------------------------------------------------------------------------
\* GET /api/search-artists, after the token

\* catch (e) of /api/search-artists
SearchCatch(rec, msg) == Respond(rec, 500, [error |-> "", cause |-> msg])

SearchAfterToken(rec) ==
    IF ~Truthy(rec.in.q)
    THEN Respond(rec, 400, [error |-> "q-required"])
    ELSE Fetch(rec, "artistSearch", "artistSearchWait")

-----------------------------------------------------------------------------
\* POST /api/generate, after the token

\* a failed insertion tried again
GenerateCatchRetries(rec, msg) ==
    IF rec.pc = "insertWait"
    THEN Fetch(rec, "insert", "insertWait")
    ELSE Respond(rec, 500, [error |-> "Failed to generate playlist: ", cause |-> msg])

\* catch (e) of /api/generate
GenerateCatch(rec, msg) ==
    Respond(rec, 500, [error |-> "Failed to generate playlist: ", cause |-> msg])

\* the search for the i-th artist is issued
SearchArtistTracks(rec, i) == Fetch([rec EXCEPT !.i = i], "trackSearch", "trackSearchWait")

\* the profile fetched before the artists are searched
GenerateAfterTokenProfileFirst(rec) == Fetch(rec, "me", "meWait")

GenerateAfterToken(rec) == SearchArtistTracks(rec, 1)

-----------------------------------------------------------------------------
\* getAccessToken

\* the handler's continuation once getAccessToken returned {token, mode}
Resolved(rec, token, mode) ==
    LET r1 == [rec EXCEPT !.token = token, !.mode = mode]
    IN IF rec.kind = "search" THEN SearchAfterToken(r1) ELSE GenerateAfterToken(r1)

\* the handler's continuation once getAccessToken threw
Thrown(rec, msg) ==
    IF rec.kind = "search" THEN SearchCatch(rec, msg) ELSE GenerateCatch(rec, msg)

\* the expiry comparison turned around
CacheHitFlipped(s, t) == Truthy(s.accessToken) /\ TruthyNum(s.expiresAt) /\ t > s.expiresAt

CacheHit(s, t) == Truthy(s.accessToken) /\ TruthyNum(s.expiresAt) /\ t < s.expiresAt

\* the service token used without looking whether it is configured
ServiceStepUnchecked(rec) == Fetch(rec, "demo", "demoWait")

\* Fall back to service token (demo mode)
ServiceStep(rec) ==
    IF Truthy(serviceRefreshToken)
    THEN Fetch(rec, "demo", "demoWait")
    ELSE Thrown(rec, "no-authentication")

\* one refresh per session at a time: a request that finds a refresh of its
\* session under way does not start another
GetAccessTokenExclusive(rec) ==
    IF CacheHit(rec.sess, now)
    THEN Resolved(rec, rec.sess.accessToken, "user")
    ELSE IF Truthy(rec.sess.refreshToken)
            /\ ~\E r \in Reqs : req[r].pc = "refreshWait"
         THEN Fetch(rec, "refresh", "refreshWait")
         ELSE ServiceStep(rec)

\* getAccessToken up to its first await
GetAccessToken(rec) ==
    IF CacheHit(rec.sess, now)
    THEN Resolved(rec, rec.sess.accessToken, "user")
    ELSE IF Truthy(rec.sess.refreshToken)
         THEN Fetch(rec, "refresh", "refreshWait")
         ELSE ServiceStep(rec)

\* the new token stored without its expiry
RefreshedNoExpiry(rec, data, t) ==
    [rec EXCEPT !.data = data, !.sess.accessToken = data.access_token]

\* a successful user refresh: the session is updated
Refreshed(rec, data, t) ==
    [rec EXCEPT !.data = data,
                !.sess.accessToken = data.access_token,
                !.sess.expiresAt = t + data.expires_in * MsPerSec]

\* a failed user refresh thrown to the handler
RefreshFailedThrows(rec) == Thrown(rec, "spotify-api-error")

\* a failed user refresh is logged and getAccessToken goes on
RefreshFailed(rec) == ServiceStep(rec)

\* the user refresh call answered
RefreshResponse(r) ==
    /\ req[r].pc = "refreshWait"
    /\ \E o \in Outcomes, at \in AccessTokens, e \in ExpiresIn :
         LET rec == Answered(req[r], o)
             data == [access_token |-> at, expires_in |-> e]
         IN Commit(r, IF o = "ok" THEN Resolved(Refreshed(rec, data, now), at, "user")
                      ELSE RefreshFailed(rec), store)
    /\ UNCHANGED <<serviceRefreshToken, now, usedCodes, handshake>>

\* the service account's token stored in the user's session
DemoReturnedStored(rec, data) ==
    [rec EXCEPT !.data = data, !.sess.accessToken = data.access_token]

\* a successful service-token exchange: nothing is stored
DemoReturned(rec, data) == [rec EXCEPT !.data = data]

\* response.ok of the service-token exchange not looked at
DemoFailedIgnored(rec) == Resolved(rec, UNDEF, "demo")

\* a failed service-token exchange is thrown to the handler
DemoFailed(rec) == Thrown(rec, "spotify-api-error")

\* the service-token call answered
DemoResponse(r) ==
    /\ req[r].pc = "demoWait"
    /\ \E o \in Outcomes, dt \in DemoTokens, e \in {1} :
         LET rec == Answered(req[r], o)
             data == [access_token |-> dt, expires_in |-> e]
         IN Commit(r, IF o = "ok" THEN Resolved(DemoReturned(rec, data), dt, "demo")
                      ELSE DemoFailed(rec), store)
    /\ UNCHANGED <<serviceRefreshToken, now, usedCodes, handshake>>

-----------------------------------------------------------------------------
\* GET /api/search-artists

\* /api/search-artists with req.query.q drawn from qs
SearchArtistsWith(r, qs) ==
    /\ Free(r)
    /\ \E q \in qs :
         Commit(r, GetAccessToken(NewReq("search", [q |-> q])), store)
    /\ UNCHANGED <<serviceRefreshToken, now, usedCodes, handshake>>

SearchArtists(r) == SearchArtistsWith(r, {UNDEF, "", "queen"})

ArtistSearchResponse(r) ==
    /\ req[r].pc = "artistSearchWait"
    /\ \E o \in Outcomes :
         LET rec == Answered(req[r], o)
         IN Commit(r, IF o = "ok" THEN Respond(rec, 200, [mode |-> rec.mode])
                      ELSE SearchCatch(rec, "spotify-api-error"), store)
    /\ UNCHANGED <<serviceRefreshToken, now, usedCodes, handshake>>

-----------------------------------------------------------------------------
\* POST /api/generate

\* a request body's artists field
NoArtists == [type |-> "undefined", items |-> <<>>]
NotArray == [type |-> "string", items |-> <<"Q", "u">>]  \* a string has a length too
ArtistArray(items) == [type |-> "array", items |-> items]

\* a songCount that is absent (<<>>) or the number n (<<n>>), as JavaScript
\* reads it in a condition: absent and 0 are falsy
TruthyCount(c) == c # <<>> /\ c[1] # 0

\* the artists only looked at for being there
InvalidRequestPresence(body) ==
    \/ ~Truthy(body.name)
    \/ body.artists.type = "undefined"

\* Validation: TRUE when the body is rejected for name or artists
InvalidRequest(body) ==
    \/ ~Truthy(body.name)
    \/ body.artists.type # "array"
    \/ Len(body.artists.items) = 0

\* Validation: TRUE when the body is rejected for songCount
InvalidSongCount(body) ==
    TruthyCount(body.songCount) /\ (body.songCount[1] < 1 \/ body.songCount[1] > 100)

DefaultSongCount == 20

\* songCount || 20
SliceEnd(c) == IF TruthyCount(c) THEN c[1] ELSE DefaultSongCount

Min(a, b) == IF a < b THEN a ELSE b

\* one element short
SliceShort(seq, n) == SubSeq(seq, 1, Min(n, Len(seq)) - 1)

\* Array.prototype.slice(0, n) for n >= 0
Slice(seq, n) == SubSeq(seq, 1, Min(n, Len(seq)))

\* the orders allTracks.sort(() => 0.5 - Math.random()) can leave the pool in
Shuffles(seq) ==
    LET n == Len(seq)
        perms == {f \in [1..n -> 1..n] : \A a, b \in 1..n : a # b => f[a] # f[b]}
    IN {[k \in 1..n |-> seq[f[k]]] : f \in perms}

Generate(r, bodies) ==
    /\ Free(r)
    /\ \E body \in bodies :
         LET rec == NewReq("generate", body)
         IN Commit(r, IF InvalidRequest(body)
                      THEN Respond(rec, 400, [error |-> "invalid-request"])
                      ELSE IF InvalidSongCount(body)
                           THEN Respond(rec, 400, [error |-> "song-count"])
                           ELSE GetAccessToken(rec), store)
    /\ UNCHANGED <<serviceRefreshToken, now, usedCodes, handshake>>

\* nothing answered when nothing was selected
SelectTracksSilent(rec, shuffled) ==
    LET selectedUris == Slice(shuffled, SliceEnd(rec.in.songCount))
        sel == [rec EXCEPT !.allTracks = shuffled, !.selectedUris = selectedUris]
    IN IF Len(selectedUris) = 0
       THEN [sel EXCEPT !.pc = "returned"]
       ELSE Fetch(sel, "me", "meWait")

\* the profile fetched whatever was selected
SelectTracksUnchecked(rec, shuffled) ==
    LET selectedUris == Slice(shuffled, SliceEnd(rec.in.songCount))
    IN Fetch([rec EXCEPT !.allTracks = shuffled, !.selectedUris = selectedUris],
             "me", "meWait")

\* after the artists loop: selection, then the profile fetch
SelectTracks(rec, shuffled) ==
    LET selectedUris == Slice(shuffled, SliceEnd(rec.in.songCount))
        sel == [rec EXCEPT !.allTracks = shuffled, !.selectedUris = selectedUris]
    IN IF Len(selectedUris) = 0
       THEN Respond(sel, 404, [error |-> "no-songs"])
       ELSE Fetch(sel, "me", "meWait")

\* every answer but a success ends the request
SearchThrowsNotOk(o) == o # "ok"

\* await fetch(...) of the track search throws: the request ends in catch (e)
SearchThrows(o) == o = "error"

\* if (!searchRes.ok) continue; if (searchData.tracks) allTracks.push(...items)
AddTracks(rec, o, items) ==
    IF o = "ok" THEN [rec EXCEPT !.allTracks = @ \o items] ELSE rec

\* the track search for artist rec.i answered; items is tracks.items, or <<>>
\* when the answer has no tracks
TrackSearchResponse(r, results) ==
    /\ req[r].pc = "trackSearchWait"
    /\ \E o \in Outcomes, items \in results :
         LET rec == Answered(req[r], o)
             got == AddTracks(rec, o, items)
         IN IF SearchThrows(o)
            THEN Commit(r, GenerateCatch(rec, "fetch-failed"), store)
            ELSE IF rec.i < Len(rec.in.artists.items)
                 THEN Commit(r, SearchArtistTracks(got, rec.i + 1), store)
                 ELSE \E shuffled \in Shuffles(got.allTracks) :
                        Commit(r, SelectTracks(got, shuffled), store)
    /\ UNCHANGED <<serviceRefreshToken, now, usedCodes, handshake>>

\* name || 'New Vibe Playlist'
PlaylistName(name) == IF Truthy(name) THEN name ELSE "New Vibe Playlist"

\* POST /users/{id}/playlists with body {name: name || 'New Vibe Playlist'}
CreatePlaylist(rec) ==
    Fetch([rec EXCEPT !.playlistName = PlaylistName(rec.in.name)], "create", "createWait")

\* GET /v1/me answered
MeResponse(r) ==
    /\ req[r].pc = "meWait"
    /\ \E o \in Outcomes :
         LET rec == Answered(req[r], o)
         IN Commit(r, IF o = "ok" THEN CreatePlaylist(rec)
                      ELSE GenerateCatch(rec, "user-information"), store)
    /\ UNCHANGED <<serviceRefreshToken, now, usedCodes, handshake>>

\* the whole pool sent
InsertTracksAll(rec) ==
    Fetch([rec EXCEPT !.sentUris = rec.allTracks], "insert", "insertWait")

\* POST /playlists/{id}/tracks with body {uris: selectedUris}
InsertTracks(rec) ==
    Fetch([rec EXCEPT !.sentUris = rec.selectedUris], "insert", "insertWait")

\* the playlist creation answered
CreateResponse(r) ==
    /\ req[r].pc = "createWait"
    /\ \E o \in Outcomes :
         LET rec == Answered(req[r], o)
         IN Commit(r, IF o = "ok" THEN InsertTracks(rec)
                      ELSE GenerateCatch(rec, "create-playlist"), store)
    /\ UNCHANGED <<serviceRefreshToken, now, usedCodes, handshake>>

\* every playlist reported as made in user mode
GenerateDoneUser(rec) ==
    Respond(rec, 200, [url |-> "external_urls.spotify", name |-> rec.playlistName,
                       mode |-> "user"])

\* res.json({url, name: playlistData.name, mode})
GenerateDone(rec) ==
    Respond(rec, 200, [url |-> "external_urls.spotify", name |-> rec.playlistName,
                       mode |-> rec.mode])

\* the track insertion answered; its status is not looked at
InsertResponse(r) ==
    /\ req[r].pc = "insertWait"
    /\ \E o \in Outcomes :
         LET rec == Answered(req[r], o)
         IN Commit(r, IF o = "error" THEN GenerateCatch(rec, "fetch-failed")
                      ELSE GenerateDone(rec), store)
    /\ UNCHANGED <<serviceRefreshToken, now, usedCodes, handshake>>

-----------------------------------------------------------------------------
\* GET /login

\* /login drawing its state from states
LoginWith(r, states) ==
    /\ Free(r)
    /\ \E state \in states :
         LET rec == NewReq("login", [q |-> UNDEF])
             set == [rec EXCEPT !.sess.state = state]
         IN Commit(r, Respond(SessionSave(set), 302, [state |-> state]), set.sess)
    /\ handshake' = "AwaitingCallback"
    /\ UNCHANGED <<serviceRefreshToken, now, usedCodes>>

Login(r) == LoginWith(r, States)

-----------------------------------------------------------------------------
\* GET /callback

\* a callback without a state let through
StateMismatchLoose(stored, state) == Truthy(stored) /\ Truthy(state) /\ state # stored

\* the comparison turned around
StateMismatchInverted(stored, state) == Truthy(stored) /\ state = stored

\* the strict check: an absent stored state rejects too
StateMismatchStrict(stored, state) == state # stored

\* the lenient state check: TRUE when the callback is rejected
StateMismatch(stored, state) == Truthy(stored) /\ state # stored

\* the code looked at before the error
CallbackBeginCodeFirst(rec) ==
    LET code == OrNull(rec.in.code)
        state == OrNull(rec.in.state)
        error == OrNull(rec.in.error)
    IN IF code = UNDEF
       THEN Respond(rec, 400, [error |-> "no-code"])
       ELSE IF error # UNDEF
            THEN Respond(rec, 400, [error |-> "authorization-error"])
            ELSE IF StateMismatch(rec.sess.state, state)
                 THEN Respond(rec, 400, [error |-> "state-mismatch"])
                 ELSE Fetch(rec, "exchange", "exchangeWait")

\* /callback up to the token exchange
CallbackBegin(rec) ==
    LET code == OrNull(rec.in.code)
        state == OrNull(rec.in.state)
        error == OrNull(rec.in.error)
    IN IF error # UNDEF
       THEN Respond(rec, 400, [error |-> "authorization-error"])
       ELSE IF code = UNDEF
            THEN Respond(rec, 400, [error |-> "no-code"])
            ELSE IF StateMismatch(rec.sess.state, state)
                 THEN Respond(rec, 400, [error |-> "state-mismatch"])
                 ELSE Fetch(rec, "exchange", "exchangeWait")

\* req.query of /callback
Queries ==
    [code : Codes \cup {UNDEF, ""}, state : States \cup {UNDEF},
     error : {UNDEF, "access_denied"}]

\* /callback with its query drawn from queries
CallbackWith(r, queries) ==
    /\ Free(r)
    /\ \E query \in queries :
         LET rec == CallbackBegin(NewReq("callback", query))
         IN /\ Commit(r, rec, store)
            /\ handshake' = IF rec.pc = "done" THEN "Failed" ELSE handshake
    /\ UNCHANGED <<serviceRefreshToken, now, usedCodes>>

Callback(r) == CallbackWith(r, Queries)

\* the tokens stored without their expiry
StoreTokensNoExpiry(s, at, rt, e, t) ==
    [accessToken |-> at, refreshToken |-> rt, expiresAt |-> NOTIME, state |-> UNDEF]

\* the pending state left in the session
StoreTokensKeepsState(s, at, rt, e, t) ==
    [accessToken |-> at, refreshToken |-> rt, expiresAt |-> t + e * MsPerSec,
     state |-> s.state]

\* Store tokens in session, clear state
StoreTokens(s, at, rt, e, t) ==
    [accessToken |-> at, refreshToken |-> rt, expiresAt |-> t + e * MsPerSec,
     state |-> UNDEF]

\* the upstream redeems an authorization code once
Redeemable(code) == code \notin usedCodes

\* the exchange succeeded: tokens stored, session saved, success page sent
ExchangeSucceeded(rec, at, rt, e, t) ==
    Respond(SessionSave([rec EXCEPT
                !.data = [access_token |-> at, refresh_token |-> rt, expires_in |-> e],
                !.sess = StoreTokens(rec.sess, at, rt, e, t)]),
            200, [success |-> TRUE])

\* error.message in catch (error) of /callback: the upstream's
\* error_description or 'Failed to get tokens' after a non-success answer,
\* the transport's message otherwise
ExchangeError(rec) ==
    IF rec.answers[Len(rec.answers)] = "fail"
    THEN IF Truthy(rec.data.error_description)
         THEN rec.data.error_description ELSE "Failed to get tokens"
    ELSE "fetch-failed"

\* the pending state dropped when the exchange fails
ExchangeFailedClears(rec) ==
    Respond([rec EXCEPT !.sess.state = UNDEF], 500, [error |-> ExchangeError(rec)])

\* the session's tokens dropped when the exchange fails
ExchangeFailedWipes(rec) ==
    Respond([rec EXCEPT !.sess = [EmptySess EXCEPT !.state = rec.sess.state]],
            500, [error |-> ExchangeError(rec)])

\* the exchange tried again when it fails
ExchangeFailedRetries(rec) == Fetch(rec, "exchange", "exchangeWait")

\* the exchange failed: catch (error) of /callback
ExchangeFailed(rec) == Respond(rec, 500, [error |-> ExchangeError(rec)])

\* the code exchange answered
ExchangeResponse(r) ==
    /\ req[r].pc = "exchangeWait"
    /\ \E o \in Outcomes, at \in AccessTokens, rt \in RefreshTokens, e \in ExpiresIn,
          desc \in ErrorDescriptions :
         LET rec == Answered(req[r], o)
             set == ExchangeSucceeded(rec, at, rt, e, now)
             bad == IF o = "fail" THEN [rec EXCEPT !.data = [error_description |-> desc]]
                    ELSE rec
         IN /\ o = "ok" => Redeemable(rec.in.code)
            /\ IF o = "ok"
               THEN /\ Commit(r, set, set.sess)
                    /\ usedCodes' = usedCodes \cup {rec.in.code}
                    /\ handshake' = "Authenticated"
               ELSE /\ Commit(r, ExchangeFailed(bad), store)
                    /\ handshake' = "Failed"
                    /\ UNCHANGED usedCodes
    /\ UNCHANGED <<serviceRefreshToken, now>>

-----------------------------------------------------------------------------
\* GET /logout

Logout(r) ==
    /\ Free(r)
    /\ LET rec == NewReq("logout", [q |-> UNDEF])
           gone == [rec EXCEPT !.sess = EmptySess, !.orig = EmptySess]
       IN Commit(r, Respond(gone, 200, [success |-> TRUE]), EmptySess)
    /\ handshake' = "Idle"
    /\ UNCHANGED <<serviceRefreshToken, now, usedCodes>>

-----------------------------------------------------------------------------
\* GET /api/auth-status

\* the expiry not looked at
HasUserAuthNoExpiry(s, t) == Truthy(s.accessToken) /\ TruthyNum(s.expiresAt)

HasUserAuth(s, t) == Truthy(s.accessToken) /\ TruthyNum(s.expiresAt) /\ t < s.expiresAt

AuthStatus(r) ==
    /\ Free(r)
    /\ LET rec == NewReq("status", [q |-> UNDEF])
           hasUserAuth == HasUserAuth(rec.sess, now)
           hasDemoMode == Truthy(serviceRefreshToken)
       IN Commit(r, Respond(rec, 200,
                    [authenticated |-> hasUserAuth,
                     mode |-> IF hasUserAuth THEN "user"
                              ELSE IF hasDemoMode THEN "demo" ELSE "none",
                     expiresAt |-> rec.sess.expiresAt,
                     demoAvailable |-> hasDemoMode]), store)
    /\ UNCHANGED <<serviceRefreshToken, now, usedCodes, handshake>>

-----------------------------------------------------------------------------
\* The clock

Tick ==
    /\ now < MaxTicks * MsPerSec
    /\ now' = now + MsPerSec
    /\ UNCHANGED <<serviceRefreshToken, store, req, usedCodes, handshake>>

-----------------------------------------------------------------------------
\* Inputs of the token and handshake specification

Bodies ==
    {[name |-> "Road Trip", artists |-> ArtistArray(<<"Queen">>), songCount |-> <<1>>],
     [name |-> "Road Trip", artists |-> ArtistArray(<<>>), songCount |-> <<>>],
     [name |-> "Road Trip", artists |-> ArtistArray(<<"Queen">>), songCount |-> <<150>>]}

SearchResults == {<<>>, <<"t1">>}

Init ==
    /\ serviceRefreshToken \in {UNDEF, "svc"}
    /\ store = EmptySess
    /\ now = 0
    /\ req = [r \in Reqs |-> IdleReq]
    /\ usedCodes = {}
    /\ handshake = "Idle"

Next ==
    \/ Tick
    \/ \E r \in Serial : SearchArtists(r)
    \/ \E r \in Serial : RefreshResponse(r)
    \/ \E r \in Serial : DemoResponse(r)
    \/ \E r \in Serial : ArtistSearchResponse(r)
    \/ \E r \in Serial : Login(r)
    \/ \E r \in Serial : Callback(r)
    \/ \E r \in Serial : ExchangeResponse(r)
    \/ \E r \in Serial : Logout(r)
    \/ \E r \in Serial : AuthStatus(r)
    \/ \E r \in Serial : Generate(r, Bodies)
    \/ \E r \in Serial : TrackSearchResponse(r, SearchResults)
    \/ \E r \in Serial : MeResponse(r)
    \/ \E r \in Serial : CreateResponse(r)
    \/ \E r \in Serial : InsertResponse(r)

Spec == Init /\ [][Next]_vars

-----------------------------------------------------------------------------
\* The playlist generator on its own: every shape of request body, one or two
\* artists, searches that return up to two tracks

GenBodies ==
    [name : {UNDEF, "Road Trip"},
     artists : {NoArtists, NotArray, ArtistArray(<<>>), ArtistArray(<<"Queen">>),
                ArtistArray(<<"Queen", "Abba">>)},
     songCount : {<<>>, <<0>>, <<-1>>, <<1>>, <<2>>, <<100>>, <<101>>, <<150>>}]

GenResults == {<<>>, <<"t1">>, <<"t2", "t3">>}

\* a session as a completed /callback leaves it
LoggedIn == StoreTokens(EmptySess, "u1", "rt1", 1, 0)

InitGen ==
    /\ serviceRefreshToken \in {UNDEF, "svc"}
    /\ store \in {EmptySess, LoggedIn}
    /\ now \in {0, MaxTicks * MsPerSec}
    /\ req = [r \in Reqs |-> IdleReq]
    /\ usedCodes = IF store = EmptySess THEN {} ELSE {"c1"}
    /\ handshake = IF store = EmptySess THEN "Idle" ELSE "Authenticated"

NextGen ==
    \/ \E r \in Serial : Generate(r, GenBodies)
    \/ \E r \in Serial : RefreshResponse(r)
    \/ \E r \in Serial : DemoResponse(r)
    \/ \E r \in Serial : TrackSearchResponse(r, GenResults)
    \/ \E r \in Serial : MeResponse(r)
    \/ \E r \in Serial : CreateResponse(r)
    \/ \E r \in Serial : InsertResponse(r)

SpecGen == InitGen /\ [][NextGen]_vars

\* every upstream call of the generator is answered in the end
UpstreamReturns ==
    /\ WF_vars(\E r \in Serial : RefreshResponse(r))
    /\ WF_vars(\E r \in Serial : DemoResponse(r))
    /\ WF_vars(\E r \in Serial : TrackSearchResponse(r, GenResults))
    /\ WF_vars(\E r \in Serial : MeResponse(r))
    /\ WF_vars(\E r \in Serial : CreateResponse(r))
    /\ WF_vars(\E r \in Serial : InsertResponse(r))

SpecGenLive == SpecGen /\ UpstreamReturns

-----------------------------------------------------------------------------
\* Two requests of one session in flight at once: the handshake, logout and
\* the artist search with its token resolution

ConcStates == {"s1"}

ConcQueries == {[code |-> "c2", state |-> "s1", error |-> UNDEF]}

ConcQs == {"queen"}

InitConc ==
    /\ serviceRefreshToken \in {UNDEF, "svc"}
    /\ store = LoggedIn
    /\ now = MaxTicks * MsPerSec
    /\ req = [r \in Reqs |-> IdleReq]
    /\ usedCodes = {"c1"}
    /\ handshake = "Authenticated"

NextConc ==
    \/ \E r \in Reqs : SearchArtistsWith(r, ConcQs)
    \/ \E r \in Reqs : RefreshResponse(r)
    \/ \E r \in Reqs : DemoResponse(r)
    \/ \E r \in Reqs : ArtistSearchResponse(r)
    \/ \E r \in Reqs : LoginWith(r, ConcStates)
    \/ \E r \in Reqs : CallbackWith(r, ConcQueries)
    \/ \E r \in Reqs : ExchangeResponse(r)
    \/ \E r \in Reqs : Logout(r)

SpecConc == InitConc /\ [][NextConc]_vars

-----------------------------------------------------------------------------
\* The user-only server (server.js): requireAuth and getValidAccessToken in
\* front of the same two handlers; it has no service token and no mode

\* nobody turned away
NeedsAuthNever(s) == FALSE

\* requireAuth: TRUE when the request is turned away
NeedsAuth(s) == ~Truthy(s.accessToken)

\* res.status(401).json({error: 'Not authenticated', needsAuth: true})
NotAuthenticated(rec) ==
    Respond(rec, 401, [error |-> "Not authenticated", needsAuth |-> TRUE])

\* getValidAccessToken up to its await
GetValidAccessToken(rec) ==
    IF CacheHit(rec.sess, now)
    THEN Resolved(rec, rec.sess.accessToken, UNDEF)
    ELSE IF ~Truthy(rec.sess.refreshToken)
         THEN Thrown(rec, "no-refresh-token")
         ELSE Fetch(rec, "refresh", "validRefreshWait")

\* GET /api/search-artists of server.js
UserSearchArtists(r, qs) ==
    /\ Free(r)
    /\ \E q \in qs :
         LET rec == NewReq("search", [q |-> q])
         IN Commit(r, IF NeedsAuth(rec.sess) THEN NotAuthenticated(rec)
                      ELSE GetValidAccessToken(rec), store)
    /\ UNCHANGED <<serviceRefreshToken, now, usedCodes, handshake>>

\* POST /api/generate of server.js
UserGenerate(r, bodies) ==
    /\ Free(r)
    /\ \E body \in bodies :
         LET rec == NewReq("generate", body)
         IN Commit(r, IF NeedsAuth(rec.sess)
                      THEN NotAuthenticated(rec)
                      ELSE IF InvalidRequest(body)
                           THEN Respond(rec, 400, [error |-> "invalid-request"])
                           ELSE IF InvalidSongCount(body)
                                THEN Respond(rec, 400, [error |-> "song-count"])
                                ELSE GetValidAccessToken(rec), store)
    /\ UNCHANGED <<serviceRefreshToken, now, usedCodes, handshake>>

\* a failed refresh: the error leaves getValidAccessToken and reaches the
\* handler's catch
ValidRefreshFailed(rec) ==
    Thrown(rec, IF rec.answers[Len(rec.answers)] = "fail" THEN "spotify-api-error"
                ELSE "fetch-failed")

\* the refresh call of getValidAccessToken answered
ValidRefreshResponse(r) ==
    /\ req[r].pc = "validRefreshWait"
    /\ \E o \in Outcomes, at \in AccessTokens, e \in ExpiresIn :
         LET rec == Answered(req[r], o)
             data == [access_token |-> at, expires_in |-> e]
         IN Commit(r, IF o = "ok" THEN Resolved(Refreshed(rec, data, now), at, UNDEF)
                      ELSE ValidRefreshFailed(rec), store)
    /\ UNCHANGED <<serviceRefreshToken, now, usedCodes, handshake>>

\* a session after /login only
Pending == [EmptySess EXCEPT !.state = "s1"]

UserQs == {UNDEF, "queen"}

InitUser ==
    /\ serviceRefreshToken = UNDEF
    /\ store \in {EmptySess, Pending, LoggedIn}
    /\ now \in {0, MaxTicks * MsPerSec}
    /\ req = [r \in Reqs |-> IdleReq]
    /\ usedCodes = IF store = LoggedIn THEN {"c1"} ELSE {}
    /\ handshake = IF store = LoggedIn THEN "Authenticated"
                   ELSE IF store = Pending THEN "AwaitingCallback" ELSE "Idle"

NextUser ==
    \/ \E r \in Serial : UserSearchArtists(r, UserQs)
    \/ \E r \in Serial : UserGenerate(r, GenBodies)
    \/ \E r \in Serial : ValidRefreshResponse(r)
    \/ \E r \in Serial : ArtistSearchResponse(r)
    \/ \E r \in Serial : TrackSearchResponse(r, SearchResults)
    \/ \E r \in Serial : MeResponse(r)
    \/ \E r \in Serial : CreateResponse(r)
    \/ \E r \in Serial : InsertResponse(r)

SpecUser == InitUser /\ [][NextUser]_vars

-----------------------------------------------------------------------------
\* Properties

\* the handler of this request called getAccessToken
ResolveCalled(rec) ==
    \/ rec.kind = "search"
    \/ rec.kind = "generate" /\ ~(rec.pc = "done" /\ rec.resp.status = 400)

\* request r arrives in this step
Arrives(r) == Free(r) /\ req'[r] # req[r]

\* a session access token that is present and not yet expired at time t
StillValid(s, t) == s.accessToken \in AccessTokens /\ s.expiresAt > t

\* the token-endpoint calls among a request's upstream calls
TokenCalls(rec) == {k \in 1..Len(rec.calls) : rec.calls[k] \in {"refresh", "demo"}}

\* the request ended with the no-credentials error
NoCredentials(rec) ==
    /\ rec.kind \in {"search", "generate"}
    /\ rec.pc = "done" /\ rec.resp.status = 500
    /\ rec.resp.cause = "no-authentication"

\* C1: when a request resolves its token on a session whose access token is
\* present and expires strictly after now, getAccessToken returns that very
\* token with mode user, calls the token endpoint not at all, and leaves the
\* request's session and the store as they were.
C1_CacheHit ==
    [][\A r \in Reqs :
         (Arrives(r) /\ ResolveCalled(req'[r]) /\ StillValid(store, now))
         => /\ req'[r].token = store.accessToken
            /\ req'[r].mode = "user"
            /\ TokenCalls(req'[r]) = {}
            /\ req'[r].sess = store
            /\ store' = store]_vars

C1_Witness ==
    \E r \in Reqs : /\ req[r].kind \in {"search", "generate"}
                    /\ req[r].mode = "user"
                    /\ req[r].token = req[r].orig.accessToken
                    /\ TokenCalls(req[r]) = {}

\* C2: a request that resolves its token on a session with no still-valid
\* access token and a refresh token present issues one user refresh call;
\* when that call succeeds no other token call is made, the session holds the
\* returned access token and expiresAt = now + expires_in * 1000, and the
\* returned token is handed to the handler with mode user.
C2_Refresh ==
    [][\A r \in Reqs :
         /\ (Arrives(r) /\ ResolveCalled(req'[r]) /\ ~StillValid(store, now)
               /\ store.refreshToken \in RefreshTokens)
            => req'[r].pc = "refreshWait" /\ req'[r].calls = <<"refresh">>
         /\ (req[r].pc = "refreshWait" /\ req'[r].answers = <<"ok">>)
            => LET new == req'[r]
               IN /\ new.data.access_token \in AccessTokens
                  /\ new.sess.accessToken = new.data.access_token
                  /\ new.sess.expiresAt = now + new.data.expires_in * 1000
                  /\ new.token = new.data.access_token
                  /\ new.mode = "user"
                  /\ TokenCalls(new) = {1}]_vars

C2_Witness ==
    \E r \in Reqs : /\ req[r].calls # <<>> /\ req[r].calls[1] = "refresh"
                    /\ req[r].answers # <<>> /\ req[r].answers[1] = "ok"
                    /\ req[r].mode = "user"
                    /\ req[r].sess.accessToken # req[r].orig.accessToken

\* the user refresh of this request was answered, and not with a success
UserRefreshFailed(rec) ==
    /\ rec.kind \in {"search", "generate"}
    /\ rec.calls # <<>> /\ rec.calls[1] = "refresh"
    /\ rec.answers # <<>> /\ rec.answers[1] # "ok"

\* the service-token exchange of this request was answered: its answer
DemoAnswer(rec) ==
    IF \E k \in 1..Len(rec.answers) : rec.calls[k] = "demo"
    THEN rec.answers[CHOOSE k \in 1..Len(rec.answers) : rec.calls[k] = "demo"]
    ELSE "none"

\* C3: a failed user refresh (non-success answer or transport error) is not
\* raised: with a service refresh token configured the service-token exchange
\* is the next call, and when it succeeds its token is returned with mode demo.
C3_RefreshFallsThrough ==
    \A r \in Reqs :
      (UserRefreshFailed(req[r]) /\ serviceRefreshToken # UNDEF)
      => /\ Len(req[r].calls) >= 2 /\ req[r].calls[2] = "demo"
         /\ DemoAnswer(req[r]) = "ok"
            => /\ req[r].mode = "demo"
               /\ req[r].token \in DemoTokens
               /\ req[r].token = req[r].data.access_token

C3_Witness ==
    \E r \in Reqs : /\ UserRefreshFailed(req[r])
                    /\ DemoAnswer(req[r]) = "ok"
                    /\ req[r].mode = "demo"

\* C4: when the service-token exchange fails the request ends with a 500
\* response; no search, profile or playlist call is made, no token is
\* returned and the session is as it was loaded.
C4_DemoFailureFatal ==
    \A r \in Reqs :
      (req[r].kind \in {"search", "generate"} /\ DemoAnswer(req[r]) \in {"fail", "error"})
      => /\ req[r].pc = "done"
         /\ req[r].resp.status = 500
         /\ \A k \in 1..Len(req[r].calls) : req[r].calls[k] \in {"refresh", "demo"}
         /\ req[r].token = UNDEF
         /\ req[r].sess = req[r].orig

C4_Witness ==
    \E r \in Reqs : /\ req[r].kind = "generate"
                    /\ DemoAnswer(req[r]) = "fail"
                    /\ req[r].resp.status = 500

\* C5: getAccessToken raises the no-credentials error exactly when the
\* session has no still-valid access token, no user refresh succeeded (no
\* refresh token, or its exchange failed) and no service refresh token is
\* configured; the only upstream call made then is the failed user refresh.
C5_NoCredentials ==
    [][\A r \in Reqs :
         (req'[r] # req[r] /\ req'[r].kind \in {"search", "generate"})
         => /\ NoCredentials(req'[r])
               <=> /\ serviceRefreshToken = UNDEF
                   /\ \/ /\ Free(r) /\ ResolveCalled(req'[r])
                         /\ ~StillValid(store, now)
                         /\ store.refreshToken = UNDEF
                      \/ /\ req[r].pc = "refreshWait"
                         /\ req'[r].answers # <<"ok">>
            /\ NoCredentials(req'[r])
               => \/ req'[r].calls = <<>>
                  \/ req'[r].calls = <<"refresh">> /\ req'[r].answers # <<"ok">>]_vars

C5_Witness ==
    \E r \in Reqs : NoCredentials(req[r]) /\ req[r].calls = <<"refresh">>

\* C6: getAccessToken changes the session only on a successful user refresh,
\* and then only accessToken and expiresAt; on every other path the session
\* is as it was loaded, so no service-account token is ever in a session.
C6_SessionFrame ==
    \A r \in Reqs :
      /\ req[r].kind \in {"search", "generate"}
         => IF req[r].calls # <<>> /\ req[r].calls[1] = "refresh"
               /\ req[r].answers # <<>> /\ req[r].answers[1] = "ok"
            THEN /\ req[r].sess.refreshToken = req[r].orig.refreshToken
                 /\ req[r].sess.state = req[r].orig.state
            ELSE req[r].sess = req[r].orig
      /\ req[r].sess.accessToken \notin DemoTokens
      /\ store.accessToken \notin DemoTokens

C6_Witness ==
    \E r \in Reqs : /\ req[r].kind \in {"search", "generate"}
                    /\ req[r].mode = "demo"
                    /\ req[r].orig.refreshToken # UNDEF
                    /\ req[r].pc = "done"

\* the callback of this request came back with a state other than the
\* (non-empty) state its session holds
MismatchCase(rec) ==
    /\ rec.kind = "callback"
    /\ Truthy(rec.orig.state)
    /\ OrNull(rec.in.state) # rec.orig.state

\* C7 as stated: a /callback whose returned state differs from the stored one
\* ends with 400, exchanges no code, and the session's token fields are unset.
C7_Original ==
    \A r \in Reqs :
      MismatchCase(req[r])
      => /\ req[r].pc = "done" /\ req[r].resp.status = 400
         /\ req[r].calls = <<>>
         /\ req[r].sess.accessToken = UNDEF
         /\ req[r].sess.refreshToken = UNDEF
         /\ req[r].sess.expiresAt = NOTIME

\* C7, amended: a /callback whose returned state differs from the non-empty
\* stored one ends with 400, exchanges no code, and leaves the session (its
\* token fields and the stored state) unchanged.
C7_StateMismatch ==
    \A r \in Reqs :
      MismatchCase(req[r])
      => /\ req[r].pc = "done" /\ req[r].resp.status = 400
         /\ req[r].calls = <<>>
         /\ req[r].sess = req[r].orig

C7_Witness ==
    \E r \in Reqs : /\ MismatchCase(req[r])
                    /\ req[r].in.code \in Codes /\ req[r].in.error = UNDEF
                    /\ req[r].resp.status = 400
                    /\ req[r].sess.accessToken \in AccessTokens

\* /callback of request r stores tokens in this step
TokensStored(r) ==
    /\ req[r].pc = "exchangeWait"
    /\ req'[r].pc = "done" /\ req'[r].resp.status = 200

\* C8 as stated: /callback stores tokens only when a /login preceded it on the
\* session and the state it issued is pending.
C8_Original ==
    [][\A r \in Reqs :
         TokensStored(r)
         => handshake = "AwaitingCallback" /\ req[r].sess.state \in States]_vars

\* C8, amended: /callback stores tokens only when it carries a code and no
\* error and the session either holds no (non-empty) stored state, whether or
\* not a /login preceded, or holds the state the callback returned.
C8_TokensOnlyAfterCheck ==
    [][\A r \in Reqs :
         TokensStored(r)
         => /\ req[r].in.code \in Codes /\ req[r].in.error = UNDEF
            /\ \/ req[r].sess.state \in {UNDEF, ""}
               \/ req[r].sess.state = req[r].in.state
            /\ req'[r].sess.accessToken \in AccessTokens]_vars

C8_Witness ==
    \E r \in Reqs : /\ req[r].kind = "callback"
                    /\ req[r].resp.status = 200
                    /\ req[r].in.state = UNDEF
                    /\ handshake = "Authenticated"

\* /callback of request r ends with a failure response in this step
CallbackFails(r) ==
    /\ req'[r] # req[r]
    /\ req'[r].kind = "callback"
    /\ req'[r].pc = "done" /\ req'[r].resp.status \in {400, 500}

\* C9 as stated: once a /callback has failed, the session is not
\* authenticated by a later /callback unless a /login came first.
C9_Original == [][handshake = "Failed" => handshake' # "Authenticated"]_vars

\* C9, amended: a /callback that fails ends that call only: it leaves the
\* session, the stored state included, and the store unchanged; the session
\* goes from Failed to Authenticated only by a /callback that passes the
\* checks, with or without a /login in between.
C9_FailedKeepsSession ==
    [][/\ \A r \in Reqs :
            CallbackFails(r)
            => /\ handshake' = "Failed"
               /\ req'[r].sess = (IF Free(r) THEN store ELSE req[r].sess)
               /\ store' = store
       /\ (handshake = "Failed" /\ handshake' = "Authenticated")
          => \E r \in Reqs :
               /\ TokensStored(r)
               /\ \/ req[r].sess.state \in {UNDEF, ""}
                  \/ req[r].sess.state = req[r].in.state]_vars

C9_Witness ==
    \E r \in Reqs : /\ req[r].kind = "callback"
                    /\ req[r].resp.status = 500
                    /\ handshake = "Failed"
                    /\ store.state \in States \ {""}
                    /\ store.state = req[r].in.state

\* C10: a /callback with a code and no error on a session that holds no
\* stored state goes on to the token exchange whatever state it returned; a
\* callback is rejected for its state only when the session holds a stored
\* state and the returned state differs from it.
C10_LenientStateCheck ==
    [][\A r \in Reqs :
         (Arrives(r) /\ req'[r].kind = "callback")
         => /\ (/\ req'[r].in.code \in Codes
                /\ req'[r].in.error = UNDEF
                /\ store.state \in {UNDEF, ""})
               => req'[r].pc = "exchangeWait" /\ req'[r].calls = <<"exchange">>
            /\ (req'[r].pc = "done" /\ req'[r].resp.error = "state-mismatch")
               => /\ store.state \in States \ {""}
                  /\ req'[r].in.state # store.state]_vars

C10_Witness ==
    \E r \in Reqs : /\ req[r].kind = "callback"
                    /\ req[r].pc = "exchangeWait"
                    /\ req[r].sess.state = UNDEF
                    /\ req[r].in.state \in States \ {""}

\* the code exchange of request r is answered in this step
ExchangeAnswered(r) == req[r].pc = "exchangeWait" /\ req'[r] # req[r]

\* C11: when /callback passed its checks and the code exchange succeeds, the
\* session holds the returned access and refresh token, expiresAt = now +
\* expires_in * 1000 and no stored state, it is saved to the store, and the
\* response is the success page.
C11_ExchangeSuccess ==
    [][\A r \in Reqs :
         (ExchangeAnswered(r) /\ req'[r].answers = <<"ok">>)
         => LET new == req'[r]
                d == new.data
            IN /\ d.access_token \in AccessTokens
               /\ d.refresh_token \in RefreshTokens
               /\ new.sess = [accessToken |-> d.access_token,
                              refreshToken |-> d.refresh_token,
                              expiresAt |-> now + d.expires_in * 1000,
                              state |-> UNDEF]
               /\ store' = new.sess
               /\ new.pc = "done"
               /\ new.resp = [status |-> 200, success |-> TRUE]]_vars

C11_Witness ==
    \E r \in Reqs : /\ req[r].kind = "callback"
                    /\ req[r].resp.status = 200
                    /\ req[r].in.state \in States \ {""}
                    /\ store.accessToken = req[r].data.access_token
                    /\ store.state = UNDEF

\* C12: a /callback with an error parameter, whatever its code and state, or
\* with no error and no code, ends with 400 without a token exchange and
\* leaves the session and the store unchanged; the error is looked at before
\* the code and the state.
C12_ErrorOrNoCode ==
    [][\A r \in Reqs :
         (Arrives(r) /\ req'[r].kind = "callback")
         => LET new == req'[r]
                refused == /\ new.pc = "done" /\ new.resp.status = 400
                           /\ new.calls = <<>>
                           /\ new.sess = store /\ store' = store
                           /\ handshake' = "Failed"
            IN /\ new.in.error = "access_denied"
                  => refused /\ new.resp.error = "authorization-error"
               /\ (new.in.error = UNDEF /\ new.in.code \notin Codes)
                  => refused /\ new.resp.error = "no-code"]_vars

C12_Witness ==
    \E r \in Reqs : /\ req[r].kind = "callback"
                    /\ req[r].in.error = "access_denied"
                    /\ req[r].in.code = UNDEF
                    /\ req[r].resp.status = 400
                    /\ req[r].sess.state \in States \ {""}

\* C13: when the code exchange fails (non-success answer or transport error)
\* /callback ends Failed with a 500 response carrying the upstream's
\* description (or the default or transport message), and the session's
\* accessToken, refreshToken and expiresAt are what they were.
C13_ExchangeFailure ==
    [][\A r \in Reqs :
         (ExchangeAnswered(r) /\ req'[r].answers # <<"ok">>)
         => LET new == req'[r]
            IN /\ new.pc = "done" /\ new.resp.status = 500
               /\ new.resp.error \in {"invalid_grant", "Failed to get tokens", "fetch-failed"}
               /\ (new.answers = <<"fail">> /\ new.data.error_description = "invalid_grant")
                  => new.resp.error = "invalid_grant"
               /\ new.sess.accessToken = req[r].sess.accessToken
               /\ new.sess.refreshToken = req[r].sess.refreshToken
               /\ new.sess.expiresAt = req[r].sess.expiresAt
               /\ store'.accessToken = store.accessToken
               /\ store'.refreshToken = store.refreshToken
               /\ store'.expiresAt = store.expiresAt
               /\ handshake' = "Failed"]_vars

C13_Witness ==
    \E r \in Reqs : /\ req[r].kind = "callback"
                    /\ req[r].resp.status = 500
                    /\ req[r].resp.error = "invalid_grant"
                    /\ req[r].sess.accessToken \in AccessTokens

\* C14: with an upstream that redeems a code once, a /callback that passes
\* its checks with an already redeemed code makes one exchange call; that
\* call fails, the response is a 500 error, the exchange is not tried again,
\* and the session and the store keep the tokens they held.
C14_Replay ==
    [][\A r \in Reqs :
         /\ (Arrives(r) /\ req'[r].kind = "callback"
               /\ req'[r].in.code \in usedCodes /\ req'[r].in.error = UNDEF
               /\ (store.state \in {UNDEF, ""} \/ store.state = req'[r].in.state))
            => req'[r].pc = "exchangeWait" /\ req'[r].calls = <<"exchange">>
         /\ (ExchangeAnswered(r) /\ req[r].in.code \in usedCodes)
            => /\ req'[r].answers \in {<<"fail">>, <<"error">>}
               /\ req'[r].pc = "done" /\ req'[r].resp.status = 500
               /\ req'[r].calls = <<"exchange">>
               /\ req'[r].sess = req[r].sess
               /\ store' = store
               /\ usedCodes' = usedCodes]_vars

C14_Witness ==
    \E r \in Reqs : /\ req[r].kind = "callback"
                    /\ req[r].in.code \in usedCodes
                    /\ req[r].resp.status = 500
                    /\ req[r].calls = <<"exchange">>
                    /\ store.accessToken \in AccessTokens

-----------------------------------------------------------------------------
\* Properties of the playlist generator

\* request r's handler called the upstream operation named call
Called(rec, call) == \E k \in DOMAIN rec.calls : rec.calls[k] = call

\* the track search of request r is answered in this step
TrackSearchAnswered(r) == req[r].pc = "trackSearchWait" /\ req'[r] # req[r]

LastAnswer(rec) == rec.answers[Len(rec.answers)]

Count(x, seq) == Cardinality({k \in DOMAIN seq : seq[k] = x})

\* b holds the elements of a, each as often, in some order
IsPermutation(a, b) ==
    /\ Len(a) = Len(b)
    /\ \A k \in DOMAIN a : Count(a[k], a) = Count(a[k], b)

Distinct(seq) == \A a, b \in DOMAIN seq : a # b => seq[a] # seq[b]

\* the handler of request r went past the artists loop
SelectionMade(rec) ==
    /\ rec.kind = "generate"
    /\ Called(rec, "me") \/ (rec.pc = "done" /\ rec.resp.status = 404)

\* C15: POST /api/generate with artists missing, not an array or empty is
\* answered 400 with no upstream call and no change to the session or the
\* store.
C15_InvalidArtists ==
    [][\A r \in Reqs :
         (Arrives(r) /\ req'[r].kind = "generate"
            /\ (req'[r].in.artists.type # "array" \/ req'[r].in.artists.items = <<>>))
         => /\ req'[r].pc = "done"
            /\ req'[r].resp.status = 400
            /\ req'[r].calls = <<>>
            /\ req'[r].sess = store
            /\ store' = store]_vars

C15_Witness ==
    \E r \in Reqs : /\ req[r].kind = "generate"
                    /\ req[r].in.artists = NotArray
                    /\ req[r].in.name = "Road Trip"
                    /\ req[r].in.songCount = <<2>>
                    /\ req[r].resp.status = 400
                    /\ store = LoggedIn

\* C16: every POST /api/generate whose songCount is supplied and lies outside
\* 1..100 is answered 400 with no upstream call.
C16_Original ==
    [][\A r \in Reqs :
         (Arrives(r) /\ req'[r].kind = "generate"
            /\ req'[r].in.songCount # <<>>
            /\ req'[r].in.songCount[1] \notin 1..100)
         => /\ req'[r].pc = "done"
            /\ req'[r].resp.status = 400
            /\ req'[r].calls = <<>>]_vars

\* the songCount a valid request asks for
Wanted(body) == IF body.songCount = <<>> THEN 20 ELSE body.songCount[1]

ValidBody(body) ==
    /\ body.artists.type = "array" /\ body.artists.items # <<>>
    /\ body.songCount = <<>> \/ body.songCount[1] \in 1..100

\* C17: for a request with artists and a songCount in 1..100 (or none, taken
\* as 20), the pool grows by exactly the tracks of each successful search,
\* and the URIs selected, and those sent to the insertion, number
\* min(songCount, size of the pool).
C17_SelectionSize ==
    [][\A r \in Reqs :
         LET old == req[r]
             new == req'[r]
         IN (new.kind = "generate" /\ ValidBody(new.in))
            => /\ (TrackSearchAnswered(r) /\ LastAnswer(new) = "ok")
                  => \E items \in GenResults : IsPermutation(old.allTracks \o items, new.allTracks)
               /\ (TrackSearchAnswered(r) /\ LastAnswer(new) = "fail")
                  => IsPermutation(old.allTracks, new.allTracks)
               /\ (old.pc # "trackSearchWait" /\ old.kind = "generate" /\ ~Arrives(r))
                  => new.allTracks = old.allTracks
               /\ SelectionMade(new)
                  => Len(new.selectedUris) = Min(Wanted(new.in), Len(new.allTracks))
               /\ Called(new, "insert")
                  => Len(new.sentUris) = Min(Wanted(new.in), Len(new.allTracks))]_vars

C17_Witness ==
    \E r \in Reqs : /\ req[r].kind = "generate"
                    /\ req[r].in.songCount = <<2>>
                    /\ req[r].pc = "insertWait"
                    /\ Len(req[r].allTracks) = 3
                    /\ Len(req[r].sentUris) = 2

\* C18: the URIs sent to the insertion are the selected ones, each from an
\* entry of its own of the pool, so they are pairwise distinct when the
\* pool's are.
C18_SentFromPool ==
    \A r \in Reqs :
       LET rec == req[r]
           sent == rec.sentUris
           pool == rec.allTracks
       IN (rec.kind = "generate" /\ Called(rec, "insert"))
          => /\ sent = rec.selectedUris
             /\ \E f \in [DOMAIN sent -> DOMAIN pool] :
                   /\ \A a, b \in DOMAIN sent : a # b => f[a] # f[b]
                   /\ \A k \in DOMAIN sent : sent[k] = pool[f[k]]
             /\ Distinct(pool) => Distinct(sent)

C18_Witness ==
    \E r \in Reqs : /\ req[r].kind = "generate"
                    /\ req[r].pc = "insertWait"
                    /\ Len(req[r].allTracks) = 4
                    /\ ~Distinct(req[r].allTracks)
                    /\ Len(req[r].sentUris) = 2
                    /\ Distinct(req[r].sentUris)

\* C19: a non-success answer to one artist's track search does not end the
\* request: the pool stays as it is, the next artist is searched if there is
\* one, and after the last artist the selection is made from the pool.
C19_SearchFailureSkipped ==
    [][\A r \in Reqs :
         LET old == req[r]
             new == req'[r]
         IN (TrackSearchAnswered(r) /\ LastAnswer(new) = "fail")
            => /\ IsPermutation(old.allTracks, new.allTracks)
               /\ ~(new.pc = "done" /\ new.resp.status = 500)
               /\ old.i < Len(old.in.artists.items)
                  => /\ new.pc = "trackSearchWait"
                     /\ new.i = old.i + 1
                     /\ new.calls = Append(old.calls, "trackSearch")
                     /\ new.allTracks = old.allTracks
               /\ old.i = Len(old.in.artists.items)
                  => /\ SelectionMade(new)
                     /\ new.selectedUris = Slice(new.allTracks, SliceEnd(new.in.songCount))
                     /\ old.allTracks # <<>> => new.pc = "meWait"]_vars

C19_Witness ==
    \E r \in Reqs : /\ req[r].kind = "generate"
                    /\ req[r].pc = "meWait"
                    /\ Len(req[r].answers) >= 2
                    /\ \E k \in DOMAIN req[r].answers :
                          /\ req[r].calls[k] = "trackSearch"
                          /\ req[r].answers[k] = "fail"
                          /\ k < Len(req[r].answers)
                          /\ req[r].calls[k + 1] = "trackSearch"
                    /\ req[r].selectedUris # <<>>

\* C20: when the artists loop ends with an empty pool, so that nothing is
\* selected, /api/generate answers 404 and calls neither the profile, nor
\* the playlist creation, nor the track insertion.
C20_NoTracks ==
    [][\A r \in Reqs :
         LET old == req[r]
             new == req'[r]
         IN (TrackSearchAnswered(r) /\ LastAnswer(new) # "error"
               /\ old.i = Len(old.in.artists.items)
               /\ Slice(new.allTracks, SliceEnd(new.in.songCount)) = <<>>)
            => /\ new.pc = "done"
               /\ new.resp.status = 404
               /\ new.selectedUris = <<>>
               /\ new.calls = old.calls
               /\ ~Called(new, "me") /\ ~Called(new, "create") /\ ~Called(new, "insert")]_vars

C20_Witness ==
    \E r \in Reqs : /\ req[r].kind = "generate"
                    /\ req[r].pc = "done"
                    /\ req[r].resp.status = 404
                    /\ Len(req[r].in.artists.items) = 2
                    /\ req[r].answers[Len(req[r].answers)] = "ok"
                    /\ req[r].answers[Len(req[r].answers) - 1] = "fail"

\* a call of request r made after the playlist search is answered in this step
LateCallAnswered(r) ==
    req[r].pc \in {"meWait", "createWait", "insertWait"} /\ req'[r] # req[r]

\* C21: a non-success answer or a transport error in the profile fetch, the
\* playlist creation or the track insertion ends /api/generate with 500
\* 'Failed to generate playlist', never with 200.
C21_Original ==
    [][\A r \in Reqs :
         (LateCallAnswered(r) /\ LastAnswer(req'[r]) # "ok")
         => /\ req'[r].pc = "done"
            /\ req'[r].resp.status = 500
            /\ req'[r].resp.error = "Failed to generate playlist: "]_vars

UpstreamCalls == {"refresh", "demo", "trackSearch", "me", "create", "insert"}

\* C22: in one generate request the profile fetch, the playlist creation and
\* the track insertion are each called at most once, no other kind of call
\* (such as a delete or unfollow) is ever made, and whatever the insertion
\* answers the handler responds without a further call.
C22_NoRetryNoCompensation ==
    [][\A r \in Reqs :
         LET old == req[r]
             new == req'[r]
         IN new.kind = "generate"
            => /\ \A c \in {"me", "create", "insert"} : Count(c, new.calls) <= 1
               /\ \A k \in DOMAIN new.calls : new.calls[k] \in UpstreamCalls
               /\ (old.pc = "insertWait" /\ new # old)
                  => /\ new.pc = "done"
                     /\ new.calls = old.calls
                     /\ new.calls[Len(new.calls) - 1] = "create"
                     /\ new.answers[Len(new.answers) - 1] = "ok"]_vars

C22_Witness ==
    \E r \in Reqs : /\ req[r].kind = "generate"
                    /\ req[r].pc = "done"
                    /\ req[r].resp.status = 500
                    /\ Called(req[r], "insert")
                    /\ LastAnswer(req[r]) = "error"

\* the calls the handler makes with the resolved token
ApiCalls == {"trackSearch", "me", "create", "insert"}

\* C23: a successful /api/generate answers with the playlist's URL and name
\* and the mode of the request's one token resolution ("user" for the
\* session's own token, "demo" for the service token), and every search,
\* profile, create and insert call of the request carries that token.
C23_ModeAndToken ==
    \A r \in Reqs :
       LET rec == req[r]
       IN rec.kind = "generate"
          => /\ Count("refresh", rec.calls) <= 1 /\ Count("demo", rec.calls) <= 1
             /\ \A k \in DOMAIN rec.calls :
                   IF rec.calls[k] \in ApiCalls
                   THEN /\ rec.bearers[k] = rec.token
                        /\ rec.token \in AccessTokens \cup DemoTokens
                        /\ \A j \in k..Len(rec.calls) : rec.calls[j] \in ApiCalls
                   ELSE rec.bearers[k] = UNDEF
             /\ (rec.pc = "done" /\ rec.resp.status = 200)
                => /\ rec.resp.url = "external_urls.spotify"
                   /\ rec.resp.name = rec.playlistName
                   /\ rec.resp.mode = rec.mode
                   /\ rec.mode = "user"
                      => rec.token = rec.sess.accessToken /\ ~Called(rec, "demo")
                   /\ rec.mode = "demo"
                      => rec.token \in DemoTokens /\ Called(rec, "demo")
                   /\ rec.mode \in {"user", "demo"}

C23_Witness ==
    \E r \in Reqs : /\ req[r].kind = "generate"
                    /\ req[r].pc = "done"
                    /\ req[r].resp.status = 200
                    /\ req[r].resp.mode = "demo"
                    /\ req[r].calls[1] = "refresh"
                    /\ req[r].calls[2] = "demo"
                    /\ Len(req[r].in.artists.items) = 2

\* C24: the playlist is created with the request's name, and a request
\* without a name is taken on and its playlist named "New Vibe Playlist".
C24_Original ==
    [][\A r \in Reqs :
         LET new == req'[r]
         IN new.kind = "generate"
            => /\ Called(new, "create")
                  => new.playlistName = IF new.in.name = UNDEF THEN "New Vibe Playlist"
                                        ELSE new.in.name
               /\ (Arrives(r) /\ new.in.name = UNDEF /\ ValidBody(new.in))
                  => ~(new.pc = "done" /\ new.resp.status = 400)]_vars

-----------------------------------------------------------------------------
\* Properties of the other routes

\* C25: GET /api/search-artists without q makes no upstream call, leaves the
\* session as it was and answers 400, whatever the session and the service
\* token are.
C25_Original ==
    \A r \in Reqs :
       (req[r].kind = "search" /\ req[r].in.q = UNDEF)
       => /\ req[r].calls = <<>>
          /\ req[r].sess = req[r].orig
          /\ req[r].pc = "done" => req[r].resp.status = 400

\* C26: GET /api/auth-status makes no upstream call and leaves the session
\* and the store as they are; authenticated is true, and mode "user", exactly
\* when the session holds an access token whose expiresAt lies in the
\* future; otherwise mode is "demo" with a service refresh token and "none"
\* without; demoAvailable tells whether a service refresh token is
\* configured.
C26_AuthStatus ==
    [][\A r \in Reqs :
         (Arrives(r) /\ req'[r].kind = "status")
         => LET new == req'[r]
                user == store.accessToken \in AccessTokens /\ store.expiresAt > now
                demo == serviceRefreshToken # UNDEF
            IN /\ new.pc = "done" /\ new.resp.status = 200
               /\ new.calls = <<>>
               /\ new.sess = store /\ store' = store
               /\ new.resp.authenticated = user
               /\ new.resp.mode = IF user THEN "user" ELSE IF demo THEN "demo" ELSE "none"
               /\ new.resp.expiresAt = store.expiresAt
               /\ new.resp.demoAvailable = demo]_vars

C26_Witness ==
    \E r \in Reqs : /\ req[r].kind = "status"
                    /\ req[r].sess.accessToken \in AccessTokens
                    /\ req[r].sess.expiresAt <= now
                    /\ ~req[r].resp.authenticated
                    /\ req[r].resp.mode = "demo"

\* C27: /logout leaves the session without accessToken, refreshToken,
\* expiresAt and state, and from then on the session has no access token (so
\* no token resolution on it returns mode "user") until a code exchange
\* succeeds.
C27_Original ==
    [][/\ \A r \in Reqs :
            (Arrives(r) /\ req'[r].kind = "logout")
            => store' = EmptySess /\ req'[r].sess = EmptySess
       /\ (store.accessToken = UNDEF /\ store'.accessToken # UNDEF)
          => \E r \in Reqs : ExchangeAnswered(r) /\ LastAnswer(req'[r]) = "ok"]_vars

\* the session in the store has an expired access token and a refresh token
Refreshable == ~CacheHit(store, now) /\ store.refreshToken \in RefreshTokens

\* C28: a request that arrives while another request of the session awaits
\* its refresh exchange, before any result is stored, issues a refresh
\* exchange of its own: nothing excludes the two.
C28_RefreshNotExclusive ==
    [][\A r \in Reqs :
         (Arrives(r) /\ req'[r].kind = "search" /\ Refreshable
            /\ \E o \in Reqs \ {r} : req[o].pc = "refreshWait" /\ req[o].orig = store)
         => /\ req'[r].pc = "refreshWait"
            /\ req'[r].calls = <<"refresh">>
            /\ req'[r].sess = store
            /\ store' = store]_vars

C28_Witness ==
    /\ Refreshable
    /\ \A r \in Reqs : /\ req[r].pc = "refreshWait"
                       /\ req[r].calls = <<"refresh">>
                       /\ req[r].sess = store

\* the place of each upstream call in a generate request
Rank == [refresh |-> 0, demo |-> 1, trackSearch |-> 2, me |-> 3, create |-> 4, insert |-> 5]

WaitPcs == {"refreshWait", "demoWait", "trackSearchWait", "meWait", "createWait", "insertWait"}

\* C29: in one generate request the upstream calls come in the order token
\* resolution, one track search per artist in the order given, profile,
\* creation, insertion; at most one call is unanswered, the handler then
\* waits for it, and the profile and creation are called only after every
\* artist's search was answered.
C29_CallOrder ==
    \A r \in Reqs :
       LET rec == req[r]
           open == Len(rec.calls) - Len(rec.answers)
       IN rec.kind = "generate"
          => /\ open \in {0, 1}
             /\ open = 1 <=> rec.pc \in WaitPcs
             /\ \A j, k \in DOMAIN rec.calls :
                   j < k => \/ Rank[rec.calls[j]] < Rank[rec.calls[k]]
                            \/ rec.calls[j] = "trackSearch" /\ rec.calls[k] = "trackSearch"
             /\ rec.i = Count("trackSearch", rec.calls)
             /\ rec.i <= Len(rec.in.artists.items)
             /\ (Called(rec, "me") \/ Called(rec, "create") \/ Called(rec, "insert"))
                => /\ rec.i = Len(rec.in.artists.items)
                   /\ \A k \in DOMAIN rec.calls :
                         rec.calls[k] = "trackSearch"
                         => k <= Len(rec.answers) /\ rec.answers[k] # "error"

C29_Witness ==
    \E r \in Reqs : /\ req[r].kind = "generate"
                    /\ req[r].pc = "insertWait"
                    /\ req[r].calls = <<"refresh", "demo", "trackSearch", "trackSearch",
                                        "me", "create", "insert">>
                    /\ req[r].in.artists.items = <<"Queen", "Abba">>

\* accessToken and expiresAt of a session
TokenPair(s) == <<s.accessToken, s.expiresAt>>

Paired(s) == (s.accessToken = UNDEF) <=> (s.expiresAt = NOTIME)

\* C30: in the store and in every request's copy of the session accessToken
\* is present exactly when expiresAt is; a request's copy gets a new pair
\* only in the step in which a code exchange or a user refresh answered with
\* success, both from that answer; and the store's pair changes only to
\* nothing (logout) or to the pair of a request's copy.
C30_TokenPair ==
    [][/\ Paired(store) /\ Paired(store')
       /\ \A r \in Reqs :
            LET old == req[r]
                new == req'[r]
            IN /\ Paired(new.sess)
               /\ Arrives(r) => TokenPair(new.sess) \in {TokenPair(store), TokenPair(EmptySess)}
               /\ (~Arrives(r) /\ TokenPair(new.sess) # TokenPair(old.sess))
                  => /\ old.pc \in {"refreshWait", "exchangeWait"}
                     /\ LastAnswer(new) = "ok"
                     /\ new.sess.accessToken = new.data.access_token
                     /\ new.sess.expiresAt = now + new.data.expires_in * 1000
       /\ TokenPair(store') # TokenPair(store)
          => \/ store' = EmptySess
             \/ \E r \in Reqs : store' = req'[r].sess]_vars

C30_Witness ==
    /\ req["r1"].calls = <<"refresh", "artistSearch">>
    /\ req["r2"].calls = <<"refresh", "artistSearch">>
    /\ req["r1"].pc = "done" /\ req["r2"].pc = "done"
    /\ req["r1"].sess.accessToken # req["r2"].sess.accessToken
    /\ req["r1"].orig.accessToken = "u1" /\ req["r2"].orig.accessToken = "u1"
    /\ store = req["r2"].sess

\* C31: /login overwrites the stored state, and while a state issued by
\* /login is stored (no callback has succeeded since) a /callback that
\* carries another state, such as one issued earlier, ends with 400 state
\* mismatch, exchanges no code and stores no tokens.
C31_Original ==
    [][\A r \in Reqs :
         LET new == req'[r]
         IN /\ (Arrives(r) /\ new.kind = "login")
               => store'.state = new.resp.state
            /\ (Arrives(r) /\ new.kind = "callback"
                  /\ store.state \in States
                  /\ new.in.state \in States \ {store.state}
                  /\ new.in.code \in Codes /\ new.in.error = UNDEF)
               => /\ new.pc = "done" /\ new.resp.status = 400
                  /\ new.resp.error = "state-mismatch"
                  /\ new.calls = <<>>
                  /\ store' = store]_vars

\* the statuses /api/generate answers with
GenerateStatuses == {200, 400, 404, 500}

\* C32: when every upstream call is answered in the end, every /api/generate
\* request ends with a response, which is 200, 400, 404 or 500; the handler
\* is always awaiting one upstream call or has responded, and once it has
\* responded it does nothing more.
C32_OneResponse ==
    /\ [](\A r \in Reqs :
            req[r].kind = "generate"
            => \/ req[r].pc \in WaitPcs /\ req[r].resp.status = 0
               \/ req[r].pc = "done" /\ req[r].resp.status \in GenerateStatuses)
    /\ [][\A r \in Reqs :
            (req[r].kind = "generate" /\ req[r].pc = "done" /\ ~Arrives(r))
            => req'[r] = req[r]]_vars
    /\ \A r \in Reqs :
          (req[r].kind = "generate" /\ req[r].pc \in WaitPcs)
          ~> (req[r].pc = "done" /\ req[r].resp.status \in GenerateStatuses)

C32_Witness ==
    \E r \in Reqs : /\ req[r].kind = "generate"
                    /\ req[r].pc = "done"
                    /\ req[r].resp.status = 404
                    /\ req[r].calls = <<"refresh", "demo", "trackSearch", "trackSearch">>
                    /\ req[r].answers = <<"fail", "ok", "fail", "fail">>

-----------------------------------------------------------------------------
\* Properties of the user-only server

\* C33: in server.js a search or generate request on a session without an
\* access token is answered 401 with needsAuth, whatever its query or body,
\* with no upstream call and the session untouched; with an expired access
\* token it passes the gate and (a generate request after its validation)
\* posts a refresh, whose success is stored in the session and whose failure
\* ends the request with 500 and no further call.
C33_RequireAuth ==
    [][\A r \in Reqs :
         LET old == req[r]
             new == req'[r]
         IN /\ (Arrives(r) /\ store.accessToken = UNDEF)
               => /\ new.pc = "done" /\ new.resp.status = 401
                  /\ new.resp.needsAuth
                  /\ new.calls = <<>>
                  /\ new.sess = store /\ store' = store
            /\ (Arrives(r) /\ store.accessToken \in AccessTokens /\ store.expiresAt <= now
                  /\ (new.kind = "generate" => ValidBody(new.in) /\ new.in.name # UNDEF))
               => /\ new.pc = "validRefreshWait"
                  /\ new.calls = <<"refresh">>
            /\ (old.pc = "validRefreshWait" /\ new # old /\ LastAnswer(new) = "ok")
               => /\ new.sess.accessToken = new.data.access_token
                  /\ new.sess.expiresAt = now + new.data.expires_in * 1000
                  /\ new.token = new.data.access_token
                  /\ new.resp.status \in {0, 400}
            /\ (old.pc = "validRefreshWait" /\ new # old /\ LastAnswer(new) # "ok")
               => /\ new.pc = "done" /\ new.resp.status = 500
                  /\ new.calls = <<"refresh">>
                  /\ new.sess = old.sess
                  /\ store' = store]_vars

C33_Witness ==
    \E r \in Reqs : /\ req[r].kind = "generate"
                    /\ req[r].pc = "done"
                    /\ req[r].resp.status = 500
                    /\ req[r].calls = <<"refresh">>
                    /\ req[r].answers = <<"fail">>
                    /\ req[r].mode = UNDEF
                    /\ store = LoggedIn

====
